---- MODULE Spec2Model ----
(***************************************************************************)
(* Trelloha: one scan of a Trello board that completes the checklist items *)
(* whose Gerrit review, GitHub pull request or Bugzilla bug is done.       *)
(* A Python string is modelled as a sequence of one-character strings, so  *)
(* `in`, the %s interpolation of a URL into a pattern and re.search work   *)
(* on characters as they do in the program.                                *)
(***************************************************************************)
EXTENDS Integers, Sequences, FiniteSets, TLC

\* ------------------------------------------------------------------------
\* Class constants
\* ------------------------------------------------------------------------
GERRIT_URLS ==
  << [name |-> "OpenStack", url |-> <<"h","t","t","p","s",":","/","/","r","e","v","i","e","w",".","o","p","e","n","s","t","a","c","k",".","o","r","g">>],
     [name |-> "RDO", url |-> <<"h","t","t","p","s",":","/","/","r","e","v","i","e","w",".","r","d","o","p","r","o","j","e","c","t",".","o","r","g">>],
     [name |-> "RHOS", url |-> <<"h","t","t","p","s",":","/","/","c","o","d","e",".","e","n","g","i","n","e","e","r","i","n","g",".","r","e","d","h","a","t",".","c","o","m","/","g","e","r","r","i","t">>] >>

BUGZILLA_URLS ==
  << [name |-> "Red Hat", url |-> <<"h","t","t","p","s",":","/","/","b","u","g","z","i","l","l","a",".","r","e","d","h","a","t",".","c","o","m">>] >>

GITHUB_URL ==
  <<"h","t","t","p","s",":","/","/","g","i","t","h","u","b",".","c","o","m">>

\* ------------------------------------------------------------------------
\* Strings and regular expressions
\* ------------------------------------------------------------------------
Digits == {"0", "1", "2", "3", "4", "5", "6", "7", "8", "9"}

DigitVal(c) ==
  CASE c = "0" -> 0 [] c = "1" -> 1 [] c = "2" -> 2 [] c = "3" -> 3
    [] c = "4" -> 4 [] c = "5" -> 5 [] c = "6" -> 6 [] c = "7" -> 7
    [] c = "8" -> 8 [] c = "9" -> 9

\* the regex metacharacter '.', as opposed to the character "."
Wild == "ANY"

\* "%s" % url inside a pattern: the URL is not escaped, so each of its dots
\* is the metacharacter
Interpolate(url) ==
  [i \in 1..Len(url) |-> IF url[i] = "." THEN Wild ELSE url[i]]

\* the literal text sub occurs in s at position i
LitAt(sub, s, i) ==
  /\ i >= 1
  /\ i + Len(sub) - 1 <= Len(s)
  /\ \A j \in 1..Len(sub) : s[i + j - 1] = sub[j]

\* the pattern pat (characters and Wild) matches in s at position i
PatAt(pat, s, i) ==
  /\ i >= 1
  /\ i + Len(pat) - 1 <= Len(s)
  /\ \A j \in 1..Len(pat) :
       IF pat[j] = Wild THEN s[i + j - 1] # "\n" ELSE s[i + j - 1] = pat[j]

\* sub in s
Contains(sub, s) ==
  \E i \in 1..(Len(s) - Len(sub) + 1) : LitAt(sub, s, i)

IsDigitAt(s, i) ==
  i >= 1 /\ i <= Len(s) /\ s[i] \in Digits

\* \d+ is greedy: the last position of the run of digits that starts at i
DigitsEnd(s, i) ==
  CHOOSE j \in i..Len(s) :
    /\ \A q \in i..j : IsDigitAt(s, q)
    /\ ~IsDigitAt(s, j + 1)

\* int(s[i..j])
IntOf(s, i, j) ==
  LET val[n \in 0..(j - i + 1)] ==
        IF n = 0 THEN 0 ELSE 10 * val[n - 1] + DigitVal(s[i + n - 1])
  IN  val[j - i + 1]

SetMin(S) == CHOOSE x \in S : \A y \in S : x <= y
SetMax(S) == CHOOSE x \in S : \A y \in S : x >= y

NoMatch == [matched |-> FALSE]

Slice(s, i, j) == SubSeq(s, i, j)

ToInt(str) == IntOf(str, 1, Len(str))

\* ------------------------------------------------------------------------
\* Pattern matchers
\* ------------------------------------------------------------------------
LastContained(URLS, label) ==
  LET In == {k \in 1..Len(URLS) : Contains(URLS[k].url, label)}
  IN  IF In = {} THEN 0 ELSE SetMax(In)

\* for name, url in URLS.items(): if url in label: break / else: return False
\* (0 stands for the else branch)
FirstContained(URLS, label) ==
  LET In == {k \in 1..Len(URLS) : Contains(URLS[k].url, label)}
  IN  IF In = {} THEN 0 ELSE SetMin(In)

\* "%s/(#/c/)?(\d+)" % gerrit_url matches in s from position i
GerritAt(gerrit_url, s, i) ==
  LET pre == Interpolate(gerrit_url) \o <<"/">>
      j == i + Len(pre)
  IN  /\ PatAt(pre, s, i)
      /\ \/ LitAt(<<"#", "/", "c", "/">>, s, j) /\ IsDigitAt(s, j + 4)
         \/ IsDigitAt(s, j)

\* re.search("%s/(#/c/)?(\d+)" % gerrit_url, s): leftmost match, group 2
GerritSearch(gerrit_url, s) ==
  LET Starts == {i \in 1..Len(s) : GerritAt(gerrit_url, s, i)}
  IN  IF Starts = {} THEN NoMatch
      ELSE LET j == SetMin(Starts) + Len(gerrit_url) + 1
               d == IF IsDigitAt(s, j) THEN j ELSE j + 4
           IN  [matched |-> TRUE, group2 |-> Slice(s, d, DigitsEnd(s, d))]

\* "/(pull|issue)/(\d+)" matches in s from position k: the kind, or ""
KindAt(s, k) ==
  IF LitAt(<<"/", "p", "u", "l", "l", "/">>, s, k) /\ IsDigitAt(s, k + 6)
  THEN "pull"
  ELSE IF LitAt(<<"/", "i", "s", "s", "u", "e", "/">>, s, k)
             /\ IsDigitAt(s, k + 7)
       THEN "issue"
       ELSE ""

\* the positions k at which "(.*)" may end when the match starts at i:
\* ".*" runs from p to k - 1 and holds no newline
GithubEnds(s, i) ==
  LET pre == Interpolate(GITHUB_URL) \o <<"/">>
      p == i + Len(pre)
  IN  IF ~PatAt(pre, s, i) THEN {}
      ELSE {k \in p..Len(s) :
              /\ KindAt(s, k) # ""
              /\ \A q \in p..(k - 1) : s[q] # "\n"}

\* re.search("%s/(.*)/(pull|issue)/(\d+)" % GITHUB_URL, s): leftmost match,
\* ".*" greedy
GithubSearch(s) ==
  LET Starts == {i \in 1..Len(s) : GithubEnds(s, i) # {}}
  IN  IF Starts = {} THEN NoMatch
      ELSE LET i == SetMin(Starts)
               p == i + Len(GITHUB_URL) + 1
               k == SetMax(GithubEnds(s, i))
               d == IF KindAt(s, k) = "pull" THEN k + 6 ELSE k + 7
           IN  [matched |-> TRUE,
                group1 |-> Slice(s, p, k - 1),
                group2 |-> KindAt(s, k),
                group3 |-> Slice(s, d, DigitsEnd(s, d))]

\* "%s/show_bug.cgi\?id=(\d+)" % bugzilla_url matches in s from position i
BugzillaAt(bugzilla_url, s, i) ==
  LET pat == Interpolate(bugzilla_url)
             \o <<"/", "s", "h", "o", "w", "_", "b", "u", "g", Wild,
                  "c", "g", "i", "?", "i", "d", "=">>
  IN  PatAt(pat, s, i) /\ IsDigitAt(s, i + Len(pat))

\* re.search("%s/show_bug.cgi\?id=(\d+)" % bugzilla_url, s)
BugzillaSearch(bugzilla_url, s) ==
  LET Starts == {i \in 1..Len(s) : BugzillaAt(bugzilla_url, s, i)}
  IN  IF Starts = {} THEN NoMatch
      ELSE LET d == SetMin(Starts) + Len(bugzilla_url) + 17
           IN  [matched |-> TRUE, group1 |-> Slice(s, d, DigitsEnd(s, d))]

\* is_a_gerrit_review_merged up to its network read: the (url, id) it
\* passes to get_review, or NoMatch when it returns False before reading
GerritRequest(label) ==
  LET g == FirstContained(GERRIT_URLS, label)
  IN  IF g = 0 THEN NoMatch
      ELSE LET m == GerritSearch(GERRIT_URLS[g].url, label)
           IN  IF ~m.matched THEN NoMatch
               ELSE [matched |-> TRUE, kind |-> "gerrit", base |-> g,
                     id |-> ToInt(m.group2)]

GithubRequestUnguarded(label) ==
  LET m == GithubSearch(label)
  IN  IF ~m.matched THEN NoMatch
      ELSE [matched |-> TRUE, kind |-> m.group2, repo |-> m.group1,
            id |-> ToInt(m.group3)]

\* is_a_github_pull_request_merged up to its network read
GithubRequest(label) ==
  IF ~Contains(GITHUB_URL, label) THEN NoMatch
  ELSE LET m == GithubSearch(label)
       IN  IF ~m.matched THEN NoMatch
           ELSE [matched |-> TRUE, kind |-> m.group2, repo |-> m.group1,
                 id |-> ToInt(m.group3)]

\* is_a_bugzilla_modified up to its network read
BugzillaRequest(label) ==
  LET b == FirstContained(BUGZILLA_URLS, label)
  IN  IF b = 0 THEN NoMatch
      ELSE LET m == BugzillaSearch(BUGZILLA_URLS[b].url, label)
           IN  IF ~m.matched THEN NoMatch
               ELSE [matched |-> TRUE, kind |-> "bugzilla", base |-> b,
                     id |-> ToInt(m.group1)]

\* ------------------------------------------------------------------------
\* Status resolvers: what each makes of the answer it reads
\* ------------------------------------------------------------------------
\* merged = review['status'] == "MERGED"
GerritMerged(review) ==
  review.status = "MERGED"

GithubMergedOnly(info) ==
  info.state = "merged"

\* info['state'] in ['closed', 'merged']
GithubMerged(info) ==
  info.state \in {"closed", "merged"}

BugStatusUnchecked(bug) ==
  bug.bug_status

\* bug_status is None when the bug element has an error attribute, and the
\* text of bug/bug_status otherwise
BugStatus(bug) ==
  IF bug.error THEN "None" ELSE bug.bug_status

\* bug_status in ["MODIFIED", "ON_QA", "VERIFIED", "RELEASING_PENDING",
\*                "CLOSED"]
BugzillaModified(bug) ==
  BugStatus(bug) \in {"MODIFIED", "ON_QA", "VERIFIED", "RELEASING_PENDING",
                      "CLOSED"}

\* ------------------------------------------------------------------------
\* The board
\* ------------------------------------------------------------------------
RECURSIVE Concat(_)
Concat(seqs) ==
  IF seqs = <<>> THEN <<>> ELSE Head(seqs) \o Concat(Tail(seqs))

\* for card in ...: for checklist in card["checklists"]:
\*   for item in checklist['checkItems']: the items in the order of the loops
Visits(cs) ==
  Concat([c \in 1..Len(cs) |->
    Concat([l \in 1..Len(cs[c].checklists) |->
      [i \in 1..Len(cs[c].checklists[l].checkItems) |->
         [card |-> cs[c].id,
          idCard |-> cs[c].checklists[l].idCard,
          checklist |-> cs[c].checklists[l].id,
          item |-> cs[c].checklists[l].checkItems[i]]]])])

\* ------------------------------------------------------------------------
\* Inputs of a scan
\* ------------------------------------------------------------------------
\* the most items on the board
MaxItems == 2

\* "see https://github-com/a/pull/7": no configured host is in it, though
\* the pull-request pattern, whose dot is a metacharacter, matches it
PlainLabel ==
  <<"s", "e", "e", " ", "h", "t", "t", "p", "s", ":", "/", "/", "g", "i",
    "t", "h", "u", "b", "-", "c", "o", "m", "/", "a", "/", "p", "u", "l",
    "l", "/", "7">>

\* "https://github.com/foo/bar/pull/42"
PullLabel ==
  GITHUB_URL \o <<"/", "f", "o", "o", "/", "b", "a", "r", "/", "p", "u",
                  "l", "l", "/", "4", "2">>

\* "https://bugzilla.redhat.com/show_bug.cgi?id=999"
BugLabel ==
  BUGZILLA_URLS[1].url \o <<"/", "s", "h", "o", "w", "_", "b", "u", "g",
                            ".", "c", "g", "i", "?", "i", "d", "=", "9",
                            "9", "9">>

\* "https://review.openstack.org/#/c/12345"
ReviewLabel ==
  GERRIT_URLS[1].url \o <<"/", "#", "/", "c", "/", "1", "2", "3", "4", "5">>

\* a pull request and a bug in one label
PullBugLabel == PullLabel \o <<" ">> \o BugLabel

\* a review, a pull request and a bug in one label
AllLabel == ReviewLabel \o <<" ">> \o PullLabel \o <<" ">> \o BugLabel

ScanLabels == {PlainLabel, PullLabel, PullBugLabel, AllLabel}

ItemStates == {"incomplete", "complete"}

\* where an item sits: in the checklist of the item before it, in a new
\* checklist of the same card, or in a new card
Breaks == {"same", "list", "card"}

Layouts ==
  UNION {{f \in [1..n -> [name : ScanLabels, state : ItemStates,
                          brk : Breaks]] : n > 0 => f[1].brk = "card"}
         : n \in 0..MaxItems}

CardNo(f, k) == Cardinality({j \in 1..k : f[j].brk = "card"})

ListNo(f, k) == Cardinality({j \in 1..k : f[j].brk # "same"})

\* the board of a layout, as get_card returns it: cards, their checklists
\* (idCard is the card that owns the checklist) and their items; ids are
\* unique
BoardOf(f) ==
  <<>> \o
  [c \in 1..CardNo(f, Len(f)) |->
     [id |-> 200 + c,
      checklists |->
        LET Ls == {ListNo(f, k) : k \in {j \in 1..Len(f) : CardNo(f, j) = c}}
        IN  <<>> \o
            [x \in 1..Cardinality(Ls) |->
               LET l == SetMin(Ls) + x - 1
                   Ks == {k \in 1..Len(f) : ListNo(f, k) = l}
               IN  [id |-> 100 + l,
                    idCard |-> 200 + c,
                    checkItems |->
                      <<>> \o
                      [y \in 1..Cardinality(Ks) |->
                         LET k == SetMin(Ks) + y - 1
                         IN  [id |-> k, name |-> f[k].name,
                              state |-> f[k].state]]]]]]

Boards == {BoardOf(f) : f \in Layouts}

\* status codes of an HTTPError
StatusCodes == {401, 500}

HTTPError(code) == [cls |-> "HTTPError", status_code |-> code]

\* an exception that is no HTTPError: requests.get and requests.put do not
\* reach the host, or a resolver cannot parse what it read
ConnectionError == [cls |-> "ConnectionError"]

\* bugzilla.find('bug/bug_status') is None and .text is read from it
AttributeError == [cls |-> "AttributeError"]

NoAuth == [cls |-> "NoAuth"]

NoError == [cls |-> "None"]

\* the answers of the review system, the pull-request host and the tracker
Reviews == [status : {"NEW", "MERGED"}]

Infos == [state : {"open", "closed", "merged"}]

Bugs ==
  [error : {FALSE},
   bug_status : {"NEW", "MODIFIED", "ON_QA", "VERIFIED",
                 "RELEASING_PENDING", "CLOSED"}]
  \cup {[error |-> TRUE, bug_status |-> "absent"]}
  \cup {[error |-> FALSE, bug_status |-> "absent"]}

\* nothing read yet for the item at hand
NoResp ==
  [review |-> [status |-> "-"], info |-> [state |-> "-"],
   bug |-> [error |-> FALSE, bug_status |-> "-"]]

\* the requests the three resolvers make of a label
RequestsOf(label) ==
  [gerrit |-> GerritRequest(label),
   github |-> GithubRequest(label),
   bugzilla |-> BugzillaRequest(label)]

\* RequestsOf on the labels of the boards, worked out once
Requests ==
  PlainLabel :> RequestsOf(PlainLabel) @@ PullLabel :> RequestsOf(PullLabel)
  @@ PullBugLabel :> RequestsOf(PullBugLabel)
  @@ AllLabel :> RequestsOf(AllLabel)

\* ------------------------------------------------------------------------
\* State
\* ------------------------------------------------------------------------
VARIABLES
  cards,    \* the board: what get_card returns
  visits,   \* the items the loops go through, in their order
  remote,   \* the state of each item on the board service, by item id
  pc,       \* where the scan is
  pos,      \* the position of the item at hand in visits
  resp,     \* what the resolvers read for the item at hand, kept until
            \* the value of the or-chain is used
  completed,\* the value of the or-chain for the item at hand
  log,      \* the calls made so far, in order
  raised,   \* the exception that ended the scan, as first raised
  exc,      \* the exception that leaves the scan
  text,    \* the label given to the review matcher
  request   \* what the review matcher made of it

vars ==
  <<cards, visits, remote, pc, pos, resp, completed, log, raised, exc, text, request>>

\* ------------------------------------------------------------------------
\* The scan: update_trello_card_checklist_with_review
\* ------------------------------------------------------------------------
Unasked == [asked |-> FALSE]

Init ==
  /\ cards \in Boards
  /\ remote = [i \in 1..Len(Visits(cards)) |-> Visits(cards)[i].item.state]
  /\ visits = <<>>
  /\ pc = "get_card"
  /\ pos = 0
  /\ resp = NoResp
  /\ completed = FALSE
  /\ log = <<>>
  /\ raised = NoError
  /\ exc = NoError
  /\ text = <<>>
  /\ request = Unasked

\* the item at hand, with the ids of its checklist and card
Cur == visits[pos]

Call(op, args, ret) ==
  [op |-> op, item |-> IF op = "get_card" THEN 0 ELSE Cur.item.id,
   args |-> args, ret |-> ret]

HandlerAll(e) ==
  IF e.cls = "HTTPError" THEN NoAuth ELSE e

\* except requests.exceptions.HTTPError as e:
\*   if e.response.status_code == 401: raise NoAuth(self.trello)
\*   raise
Handler(e) ==
  IF e.cls = "HTTPError"
  THEN IF e.status_code = 401 THEN NoAuth ELSE e
  ELSE e

\* the loops go on to position n
Goto(n) ==
  /\ pos' = n
  /\ resp' = NoResp
  /\ completed' = FALSE
  /\ pc' = IF n > Len(visits) THEN "done" ELSE "item"

NextPosSkipping(p) == p + 2

\* for item in ...: the position after p
NextPos(p) == p + 1

NextItem == Goto(NextPos(pos))

AbortAndGoOn(e) ==
  /\ raised' = e
  /\ exc' = exc
  /\ pos' = NextPos(pos)
  /\ completed' = FALSE
  /\ pc' = IF NextPos(pos) > Len(visits) THEN "done" ELSE "item"

\* an exception raised inside the try block ends the scan: it passes the
\* except clause and leaves update_trello_card_checklist_with_review
Abort(e) ==
  /\ raised' = e
  /\ exc' = Handler(e)
  /\ pc' = "raised"
  /\ UNCHANGED <<pos, completed>>

\* self.trello.boards.get_card(self.board_id, filter="visible",
\*                             checklists="all") answers
GetCard ==
  /\ pc = "get_card"
  /\ log' = Append(log, [op |-> "get_card", item |-> 0,
                         args |-> [filter |-> "visible", checklists |-> "all"],
                         ret |-> "ok"])
  /\ visits' = Visits(cards)
  /\ pos' = 1
  /\ pc' = IF Visits(cards) = <<>> THEN "done" ELSE "item"
  /\ UNCHANGED <<resp, completed>>
  /\ UNCHANGED <<cards, remote, raised, exc, text, request>>

\* get_card raises
GetCardFails ==
  /\ pc = "get_card"
  /\ \E e \in {HTTPError(c) : c \in StatusCodes} \cup {ConnectionError} :
       Abort(e)
  /\ resp' = resp
  /\ log' = Append(log, [op |-> "get_card", item |-> 0,
                         args |-> [filter |-> "visible", checklists |-> "all"],
                         ret |-> "raise"])
  /\ UNCHANGED <<cards, visits, remote, text, request>>

EligibleAlways(item) ==
  TRUE

\* item['state'] == "incomplete"
Eligible(item) ==
  item.state = "incomplete"

AfterAll(op, ret) ==
  CASE op = "gerrit" -> "github"
    [] op = "github" -> "bugzilla"
    [] op = "bugzilla" -> "if"

\* a or b or c: where the chain goes after resolver op returned ret
After(op, ret) ==
  IF ret THEN "if"
  ELSE CASE op = "gerrit" -> "github"
         [] op = "github" -> "bugzilla"
         [] op = "bugzilla" -> "if"

\* resolver op returns ret, having read r (or nothing when rq is NoMatch)
Returns(op, rq, ret, r) ==
  /\ log' = Append(log, Call(op, rq, IF ret THEN "True" ELSE "False"))
  /\ resp' = r
  /\ completed' = ret
  /\ pc' = After(op, ret)
  /\ UNCHANGED <<cards, visits, remote, pos, raised, exc, text, request>>

\* resolver op raises e, having read r (or nothing when r is resp)
Raises(op, rq, e, r) ==
  /\ log' = Append(log, Call(op, rq, "raise"))
  /\ Abort(e)
  /\ resp' = r
  /\ UNCHANGED <<cards, visits, remote, text, request>>

\* the item is not incomplete: the and gives False without a resolver
Skip ==
  /\ pc = "item"
  /\ ~Eligible(Cur.item)
  /\ completed' = FALSE
  /\ pc' = "if"
  /\ UNCHANGED <<cards, visits, remote, pos, resp, log, raised, exc, text, request>>

\* self.is_a_gerrit_review_merged(item)
Gerrit ==
  /\ pc = "item"
  /\ Eligible(Cur.item)
  /\ LET rq == Requests[Cur.item.name].gerrit
     IN  IF ~rq.matched
         THEN Returns("gerrit", rq, FALSE, resp)
         ELSE \/ \E review \in Reviews :
                   Returns("gerrit", rq, GerritMerged(review),
                           [resp EXCEPT !.review = review])
              \/ Raises("gerrit", rq, ConnectionError, resp)

\* self.is_a_github_pull_request_merged(item)
Github ==
  /\ pc = "github"
  /\ LET rq == Requests[Cur.item.name].github
     IN  IF ~rq.matched
         THEN Returns("github", rq, FALSE, resp)
         ELSE \/ \E info \in Infos :
                   Returns("github", rq, GithubMerged(info),
                           [resp EXCEPT !.info = info])
              \/ Raises("github", rq, ConnectionError, resp)

\* self.is_a_bugzilla_modified(item)
Bugzilla ==
  /\ pc = "bugzilla"
  /\ LET rq == Requests[Cur.item.name].bugzilla
     IN  IF ~rq.matched
         THEN Returns("bugzilla", rq, FALSE, resp)
         ELSE \/ \E bug \in Bugs :
                   IF BugStatus(bug) = "absent"
                   THEN Raises("bugzilla", rq, AttributeError,
                               [resp EXCEPT !.bug = bug])
                   ELSE Returns("bugzilla", rq, BugzillaModified(bug),
                                [resp EXCEPT !.bug = bug])
              \/ Raises("bugzilla", rq, ConnectionError, resp)

\* if completed: ... else the loop takes the next item; the answers the
\* resolvers read are gone with their frames
If ==
  /\ pc = "if"
  /\ IF completed
     THEN pc' = "put" /\ resp' = NoResp /\ UNCHANGED <<pos, completed>>
     ELSE NextItem
  /\ UNCHANGED <<cards, visits, remote, log, raised, exc, text, request>>

PutRequestSwapped(v) ==
  [card_id |-> v.checklist, checklist_id |-> v.idCard,
   checkitem_id |-> v.item.id, value |-> "complete"]

\* self.checkitem_update_state(checklist['idCard'], checklist['id'],
\*                             item['id'], "complete")
PutRequest(v) ==
  [card_id |-> v.idCard, checklist_id |-> v.checklist,
   checkitem_id |-> v.item.id, value |-> "complete"]

\* the board service sets the state of the item
Applied(rq) ==
  [remote EXCEPT ![rq.checkitem_id] = rq.value]

\* requests.put(...) answers 200: raise_for_status passes
Put ==
  /\ pc = "put"
  /\ log' = Append(log, Call("put", PutRequest(Cur), "ok"))
  /\ remote' = Applied(PutRequest(Cur))
  /\ NextItem
  /\ UNCHANGED <<cards, visits, raised, exc, text, request>>

\* the service answers with an error status and raise_for_status raises, or
\* the connection fails
PutFails ==
  /\ pc = "put"
  /\ log' = Append(log, Call("put", PutRequest(Cur), "raise"))
  /\ \E e \in {HTTPError(c) : c \in StatusCodes} \cup {ConnectionError} :
       Abort(e)
  /\ UNCHANGED <<cards, visits, remote, resp, text, request>>

Next ==
  \/ GetCard
  \/ GetCardFails
  \/ Skip
  \/ Gerrit
  \/ Github
  \/ Bugzilla
  \/ If
  \/ Put
  \/ PutFails

Spec == Init /\ [][Next]_vars

\* every call returns or raises: the scan is one thread of blocking calls
FairSpec == Spec /\ WF_vars(Next)

\* ------------------------------------------------------------------------
\* The review matcher on its own
\* ------------------------------------------------------------------------
\* the most pieces in a label
MaxPieces == 4

\* "https://review-openstack.org": no configured URL, though the pattern of
\* the OpenStack URL matches it
NearOpenStack ==
  <<"h", "t", "t", "p", "s", ":", "/", "/", "r", "e", "v", "i", "e", "w",
    "-", "o", "p", "e", "n", "s", "t", "a", "c", "k", ".", "o", "r", "g">>

Pieces ==
  {GERRIT_URLS[1].url, GERRIT_URLS[2].url, GERRIT_URLS[3].url,
   NearOpenStack, <<"/">>, <<"#", "/", "c", "/">>, <<"7">>}

Labels ==
  {Concat(ps) : ps \in UNION {[1..n -> Pieces] : n \in 0..MaxPieces}}

InitMatch ==
  /\ text \in Labels
  /\ request = Unasked
  /\ cards = <<>>
  /\ visits = <<>>
  /\ remote = <<>>
  /\ pc = "match"
  /\ pos = 0
  /\ resp = NoResp
  /\ completed = FALSE
  /\ log = <<>>
  /\ raised = NoError
  /\ exc = NoError

\* the review matcher is given the label
Match ==
  /\ pc = "match"
  /\ request = Unasked
  /\ request' = GerritRequest(text)
  /\ UNCHANGED <<cards, visits, remote, pc, pos, resp, completed, log, raised, exc,
                 text>>

NextMatch == Match

SpecMatch == InitMatch /\ [][NextMatch]_vars

\* ------------------------------------------------------------------------
\* Properties
\* ------------------------------------------------------------------------
Resolvers == {"gerrit", "github", "bugzilla"}


\* the positions in the log of the calls of op made for item id
LogAt(op, id) ==
  {j \in DOMAIN log : log[j].op = op /\ log[j].item = id}

\* some resolver returned True for item id
ReportedComplete(id) ==
  \E j \in DOMAIN log :
    log[j].item = id /\ log[j].op \in Resolvers /\ log[j].ret = "True"

\* the scan is past position i, or over
Handled(i) ==
  i < pos \/ pc \in {"done", "raised"}

Last == log[Len(log)]

\* sub occurs in s, character by character
Occurs(sub, s) ==
  \E i \in 1..(Len(s) - Len(sub) + 1) : SubSeq(s, i, i + Len(sub) - 1) = sub

ConfiguredHosts ==
  {GERRIT_URLS[g].url : g \in DOMAIN GERRIT_URLS}
  \cup {GITHUB_URL}
  \cup {BUGZILLA_URLS[b].url : b \in DOMAIN BUGZILLA_URLS}

\* the labels with no configured host substring
HostFree ==
  {l \in ScanLabels : \A u \in ConfiguredHosts : ~Occurs(u, l)}

\* the labels that match the pull-request pattern and hold no review-system
\* base URL
PullNoReview ==
  {l \in ScanLabels :
     /\ GithubSearch(l).matched
     /\ \A g \in DOMAIN GERRIT_URLS : ~Occurs(GERRIT_URLS[g].url, l)}

\* ... and no tracker base URL either
PullAlone ==
  {l \in PullNoReview :
     \A b \in DOMAIN BUGZILLA_URLS : ~Occurs(BUGZILLA_URLS[b].url, l)}

\* C1: an update request is issued for an item iff the item was incomplete
\* in the fetched board and some resolver reported complete for it; every
\* update request carries the ids of the item, of its checklist and of the
\* card that owns it, and goes to an item of the board.
C1_UpdateIffResolved ==
  LET Board == Visits(cards)
  IN  /\ \A i \in DOMAIN Board :
           LET v == Board[i]
               Puts == LogAt("put", v.item.id)
           IN  /\ Puts # {} =>
                    v.item.state = "incomplete" /\ ReportedComplete(v.item.id)
               /\ (Handled(i) /\ v.item.state = "incomplete"
                     /\ ReportedComplete(v.item.id)) => Puts # {}
               /\ \A j \in Puts :
                    log[j].args = [card_id |-> v.card,
                                   checklist_id |-> v.checklist,
                                   checkitem_id |-> v.item.id,
                                   value |-> "complete"]
      /\ \A j \in DOMAIN log :
           log[j].op = "put" => \E i \in DOMAIN Board : Board[i].item.id = log[j].item

\* a finished scan that completed one item and left an incomplete item of
\* another card alone
C1_Witness ==
  LET Board == Visits(cards)
  IN  /\ pc = "done"
      /\ \E i, j \in DOMAIN Board :
           /\ Board[i].card # Board[j].card
           /\ LogAt("put", Board[i].item.id) # {}
           /\ Board[j].item.state = "incomplete"
           /\ LogAt("bugzilla", Board[j].item.id) # {}
           /\ LogAt("put", Board[j].item.id) = {}

C2_Inv ==
  LET Board == Visits(cards)
  IN  /\ \A j \in DOMAIN log : log[j].op = "put" => log[j].args.value = "complete"
      /\ \A i \in DOMAIN Board :
           Board[i].item.state = "complete" =>
             /\ \A j \in DOMAIN log : log[j].item # Board[i].item.id
             /\ remote[Board[i].item.id] = "complete"

C2_Step ==
  \A i \in DOMAIN remote : remote[i] = "complete" => remote'[i] = "complete"

\* C2: a complete item is never reverted: every update request carries
\* "complete", no step of the scan takes an item of the board service out of
\* "complete", and an item that is complete in the fetched board is given to
\* no resolver and gets no update request.
C2_NeverReverted ==
  []C2_Inv /\ [][C2_Step]_vars

\* the scan went past a complete item whose label names a pull request and
\* has sent an update for another item
C2_Witness ==
  LET Board == Visits(cards)
  IN  \E i \in DOMAIN Board :
        /\ i < pos
        /\ Board[i].item.state = "complete"
        /\ Requests[Board[i].item.name].github.matched
        /\ \E j \in DOMAIN log : log[j].op = "put" /\ log[j].ret = "ok"

\* C3: for an item the resolvers run in the order review, pull request,
\* defect: the review resolver comes first, each later resolver runs right
\* after the one before it returned False for the same item, and after a
\* resolver returned True no further resolver runs for that item.
C3_ResolverOrder ==
  \A j \in DOMAIN log :
    log[j].op \in Resolvers =>
      /\ log[j].op = "gerrit" =>
           \A h \in 1..(j - 1) : log[h].item # log[j].item
      /\ log[j].op = "github" =>
           /\ j > 1
           /\ log[j - 1].op = "gerrit"
           /\ log[j - 1].item = log[j].item
           /\ log[j - 1].ret = "False"
      /\ log[j].op = "bugzilla" =>
           /\ j > 1
           /\ log[j - 1].op = "github"
           /\ log[j - 1].item = log[j].item
           /\ log[j - 1].ret = "False"
      /\ (log[j].ret = "True" /\ j < Len(log)) =>
           \A h \in (j + 1)..Len(log) :
             log[h].item = log[j].item => log[h].op = "put"

\* the pull-request host answered done for an item whose label also names a
\* bug, after the review system had answered not merged: the update follows
C3_Witness ==
  LET Board == Visits(cards)
  IN  \E j \in DOMAIN log :
        /\ j > 1 /\ j < Len(log)
        /\ log[j].op = "github" /\ log[j].ret = "True"
        /\ log[j - 1].op = "gerrit" /\ log[j - 1].args.matched
        /\ Requests[Board[log[j].item].item.name].bugzilla.matched
        /\ log[j + 1].op = "put"

IsHTTPError(e) == e.cls = "HTTPError"

\* C4: an HTTP 401 raised during the scan, which only the board service
\* raises (on the fetch or on an update), leaves the scan as NoAuth; an HTTP
\* error of any other status leaves the scan as it was raised; nothing else
\* becomes NoAuth.
C4_AuthError ==
  /\ pc = "raised" <=> raised # NoError
  /\ pc # "raised" => exc = NoError
  /\ pc = "raised" =>
       /\ IsHTTPError(raised) => Last.op \in {"get_card", "put"}
       /\ (IsHTTPError(raised) /\ raised.status_code = 401) => exc = NoAuth
       /\ (IsHTTPError(raised) /\ raised.status_code # 401) => exc = raised
       /\ exc = NoAuth => IsHTTPError(raised) /\ raised.status_code = 401

\* the board service answered 401 to an update
C4_Witness ==
  /\ pc = "raised"
  /\ Last.op = "put"
  /\ raised = HTTPError(401)
  /\ exc = NoAuth

\* item i went through the loop body
Processed(v) ==
  LET id == v.item.id
  IN  \/ v.item.state # "incomplete"
      \/ \E j \in LogAt("put", id) : log[j].ret = "ok"
      \/ \E j \in LogAt("bugzilla", id) : log[j].ret = "False"

\* C5: an error ends the scan at once and for good: the call that raised is
\* the last call made and is made once, no later item is resolved or
\* updated, the items updated before stay complete on the board service, and
\* a scan that does not raise has processed every item.
C5_AbortTotal ==
  LET Board == Visits(cards)
  IN  /\ \A j \in DOMAIN log :
           log[j].ret = "raise" => j = Len(log) /\ pc = "raised"
      /\ \A j, h \in DOMAIN log :
           (log[j].op = log[h].op /\ log[j].item = log[h].item) => j = h
      /\ \A j \in DOMAIN log :
           (log[j].op = "put" /\ log[j].ret = "ok") =>
             remote[log[j].item] = "complete"
      /\ pc = "raised" =>
           /\ log # <<>> /\ Last.ret = "raise"
           /\ \A i \in DOMAIN Board :
                i > pos =>
                  /\ \A j \in DOMAIN log : log[j].item # Board[i].item.id
                  /\ remote[Board[i].item.id] = Board[i].item.state
      /\ pc = "done" => \A i \in DOMAIN Board : Processed(Board[i])
      /\ pc \in {"done", "raised"} <=> ~ENABLED Next

\* the scan raised at the second item after it had completed the first
C5_Witness ==
  LET Board == Visits(cards)
  IN  /\ pc = "raised"
      /\ pos = 2
      /\ \E j \in LogAt("put", Board[1].item.id) : log[j].ret = "ok"
      /\ remote[Board[1].item.id] = "complete"

\* C6: an item whose label holds no configured host substring costs no
\* network read and no update: each resolver called for it returns False
\* without a request, and its state on the board service stays what it was.
C6_HostFreeUntouched ==
  LET Board == Visits(cards)
  IN  \A i \in DOMAIN Board :
        Board[i].item.name \in HostFree =>
          /\ \A j \in DOMAIN log :
               log[j].item = Board[i].item.id =>
                 /\ log[j].op \in Resolvers
                 /\ ~log[j].args.matched
                 /\ log[j].ret = "False"
          /\ remote[Board[i].item.id] = Board[i].item.state
          /\ (i < pos /\ Board[i].item.state = "incomplete") =>
               \A r \in Resolvers : LogAt(r, Board[i].item.id) # {}

\* the scan went past an incomplete item without a configured host
C6_Witness ==
  LET Board == Visits(cards)
  IN  \E i \in DOMAIN Board :
        /\ i < pos
        /\ Board[i].item.name \in HostFree
        /\ Board[i].item.state = "incomplete"
        /\ LogAt("bugzilla", Board[i].item.id) # {}

\* C7 as stated: an incomplete item whose label matches the pull-request
\* pattern and holds no review-system base URL is to be completed iff the
\* returned state is "closed" or "merged".
C7_PullDecides ==
  LET Board == Visits(cards)
  IN  (/\ pc = "if"
       /\ Board[pos].item.state = "incomplete"
       /\ Board[pos].item.name \in PullNoReview)
      => (completed <=> resp.info.state \in {"closed", "merged"})

\* C7 amended: for an incomplete item whose label matches the pull-request
\* pattern and holds neither a review-system nor a tracker base URL, the
\* scan decides to send the update, and sends it, iff the returned state is
\* "closed" or "merged"; and whatever the label, the pull-request resolver
\* that read a state returns True iff that state is "closed" or "merged".
C7_PullAloneDecides ==
  LET Board == Visits(cards)
  IN  /\ (/\ pc = "if"
          /\ Board[pos].item.state = "incomplete"
          /\ Board[pos].item.name \in PullAlone)
         => (completed <=> resp.info.state \in {"closed", "merged"})
      /\ (/\ pc \in {"done", "item", "raised"}
          /\ log # <<>>
          /\ Last.op = "put"
          /\ Board[Last.item].item.name \in PullAlone)
         => \E j \in LogAt("github", Last.item) : log[j].ret = "True"
      /\ (/\ pc \in {"bugzilla", "if"}
          /\ Last.op = "github"
          /\ Last.args.matched)
         => (Last.ret = "True" <=> resp.info.state \in {"closed", "merged"})

\* the pull-request host answered "merged" for a label that is a pull
\* request and nothing else
C7_Witness ==
  LET Board == Visits(cards)
  IN  /\ pc = "if"
      /\ Board[pos].item.name \in PullAlone
      /\ resp.info.state = "merged"
      /\ completed

\* C8: the defect resolver that read a bug record returns False, and does
\* not raise, when the bug element has an error attribute; without the
\* attribute it returns True iff bug_status is MODIFIED, ON_QA, VERIFIED,
\* RELEASING_PENDING or CLOSED; the item is to be completed iff it returned
\* True.
C8_BugStatus ==
  (/\ pc \in {"if", "raised"}
   /\ log # <<>>
   /\ Last.op = "bugzilla"
   /\ Last.args.matched
   /\ resp.bug # NoResp.bug)
  => /\ resp.bug.error => Last.ret = "False"
     /\ ~resp.bug.error =>
          (Last.ret = "True" <=>
             resp.bug.bug_status \in {"MODIFIED", "ON_QA", "VERIFIED",
                                      "RELEASING_PENDING", "CLOSED"})
     /\ pc = "if" => (completed <=> Last.ret = "True")

\* the tracker answered with a bug element that has an error attribute
C8_Witness ==
  /\ pc = "if"
  /\ Last.op = "bugzilla"
  /\ Last.args.matched
  /\ resp.bug.error
  /\ ~completed

\* the literal base URL is followed in s by /<digits> or /#/c/<digits>
FollowedById(url, s) ==
  \/ \E d \in Digits : Occurs(url \o <<"/", d>>, s)
  \/ \E d \in Digits : Occurs(url \o <<"/", "#", "/", "c", "/", d>>, s)

\* s holds text that the pattern of url (each dot of the URL standing for
\* any character) matches, followed by /<digits> or /#/c/<digits>
PatternFollowedById(url, s) ==
  \E i \in 1..Len(s) :
    LET a == i + Len(url)
    IN  /\ a <= Len(s)
        /\ \A j \in 1..Len(url) : url[j] = "." \/ s[i + j - 1] = url[j]
        /\ s[a] = "/"
        /\ \/ a + 1 <= Len(s) /\ s[a + 1] \in Digits
           \/ /\ a + 5 <= Len(s)
              /\ SubSeq(s, a + 1, a + 4) = <<"#", "/", "c", "/">>
              /\ s[a + 5] \in Digits

\* the configured review systems whose base URL is in s
ReviewsIn(s) ==
  {g \in DOMAIN GERRIT_URLS : Occurs(GERRIT_URLS[g].url, s)}

\* C9 as stated: the review matcher yields an identifier iff some configured
\* base URL that occurs in the label is followed by an id.
C9_AnyContainedBase ==
  request # Unasked =>
    (request.matched <=>
       \E g \in ReviewsIn(text) : FollowedById(GERRIT_URLS[g].url, text))

\* C9 amended: the review matcher tries the first configured base URL that
\* occurs in the label and no other: it yields an identifier, for that
\* review system, iff the label holds a match of that URL's pattern followed
\* by /<digits> or /#/c/<digits> (so whenever that URL itself is followed by
\* an id), and declares no-match otherwise, also when no configured base URL
\* occurs in the label.
C9_FirstContainedBase ==
  request # Unasked =>
    LET In == ReviewsIn(text)
        first == CHOOSE g \in In : \A h \in In : g <= h
    IN  /\ In = {} => ~request.matched
        /\ In # {} =>
             /\ request.matched
                  <=> PatternFollowedById(GERRIT_URLS[first].url, text)
             /\ request.matched => request.base = first
             /\ FollowedById(GERRIT_URLS[first].url, text) => request.matched

\* the matcher yielded an id for a label that holds two configured base URLs
C9_Witness ==
  /\ request # Unasked
  /\ request.matched
  /\ Cardinality(ReviewsIn(text)) >= 2

C10_Order ==
  LET Board == Visits(cards)
  IN  /\ log # <<>> => log[1].op = "get_card"
      /\ \A j \in DOMAIN log : log[j].op = "get_card" => j = 1
      /\ pc # "get_card" => log # <<>>
      /\ \A j, h \in DOMAIN log : j < h => log[j].item <= log[h].item
      /\ \A j \in DOMAIN log :
           log[j].op = "put" =>
             /\ log[j - 1].op \in Resolvers
             /\ log[j - 1].item = log[j].item
             /\ log[j - 1].ret = "True"
             /\ \A h \in (j + 1)..Len(log) : log[h].item > log[j].item
      /\ \A i \in DOMAIN Board :
           /\ Cardinality(LogAt("put", Board[i].item.id)) <= 1
           /\ Cardinality(LogAt("gerrit", Board[i].item.id)) <= 1
           /\ (i < pos /\ Board[i].item.state = "incomplete") =>
                Cardinality(LogAt("gerrit", Board[i].item.id)) = 1
      /\ pc = "done" => pos = Len(Board) + 1

C10_Ended == pc \in {"done", "raised"}

\* C10: the scan is sequential in board order: the fetch is the first call
\* and is made once; the calls made for an item come before every call made
\* for a later item; an update comes right after the resolver of its item
\* that returned True and closes the calls of that item; each item is
\* visited once, so gets at most one update; and the scan ends.
C10_Sequential ==
  []C10_Order /\ <>C10_Ended

\* a finished scan of two items that updated both
C10_Witness ==
  LET Board == Visits(cards)
  IN  /\ pc = "done"
      /\ Len(Board) = 2
      /\ \A i \in DOMAIN Board : LogAt("put", Board[i].item.id) # {}
====
